---- MODULE Spec2Model ----
(***************************************************************************)
(* Model of src/ipfs/node.py: a cluster of peers on one pub/sub topic.      *)
(* Every peer runs the same process: a subscription consumer                *)
(* (listener_pubsub), a heartbeat loop, a leader monitor that starts        *)
(* elections, timers for automatic votes and, once elected, an HTTP server. *)
(*                                                                          *)
(* The local state of a peer is one record (the NodeContext object plus the *)
(* files the process owns); every function of node.py that changes it is an *)
(* operator from the old record to the new one (and the envelopes it        *)
(* published).  The bus is the set of envelopes published so far: any of    *)
(* them may be delivered to any running peer, in any order, any number of   *)
(* times, or never.                                                         *)
(***************************************************************************)
EXTENDS Integers, Sequences, FiniteSets, TLC

VARIABLES node, msgs, auto_fired, adopted, env

vars == <<node, msgs, auto_fired, adopted, env>>

(***************************************************************************)
(* Bounds of the model.                                                     *)
(***************************************************************************)
MaxTerm == 2
MaxTimers == 2
MaxDocs == 2
MaxSearches == 2

Node == {"n1", "n2", "n3"}
DocId == Node \X (1..MaxDocs)
SearchId == Node \X (1..MaxSearches)

None == "None"
NoContent == "KeyError"

FOLLOWER == "follower"
CANDIDATE == "candidate"
LEADER == "leader"

(***************************************************************************)
(* Content addressing and hashing.                                          *)
(***************************************************************************)
Content(doc_id) == <<"bytes", doc_id>>

adicionar_ao_ipfs(content) == <<"Qm", content>>

EmbeddingBytes(content) == <<"emb", content>>

calcular_hash_vetor(documents) == [sha256 |-> documents]

DocEntry(content) ==
    [cid |-> adicionar_ao_ipfs(content),
     embedding_cid |-> adicionar_ao_ipfs(EmbeddingBytes(content)),
     embedding_file |-> adicionar_ao_ipfs(content)]

VECTOR_FILE == "document_vector.json"

(***************************************************************************)
(* NodeContext.__init__ and the files of a fresh process: vector is what    *)
(* VECTOR_FILE holds when it parses, corrupt_files the names of the files of *)
(* the working directory that do not parse.                                 *)
(***************************************************************************)
NodeContext(id) ==
    [peer_id |-> id,
     running |-> TRUE,
     state |-> FOLLOWER,
     current_term |-> 0,
     voted_for |-> None,
     leader_id |-> None,
     last_leader_heartbeat |-> None,
     votes_received |-> {},
     current_election_term |-> 0,
     peers |-> {},
     voting_sessions |-> <<>>,
     version_confirmations |-> <<>>,
     temp_vectors |-> <<>>,
     http_server |-> FALSE,
     lock |-> "free",
     timers |-> [d \in DocId |-> 0],
     vector |-> [version_confirmed |-> 0, documents_confirmed |-> <<>>],
     pending_uploads |-> {},
     temp_embeddings |-> {},
     embeddings |-> {},
     faiss_index |-> <<>>,
     search_requests |-> <<>>,
     search_results |-> <<>>,
     last_search_peer_index |-> 0,
     search_jobs |-> {},
     corrupt_files |-> {}]

Reply(s, out) == [s |-> s, out |-> out, raised |-> FALSE]

\* A file that does not parse is reported and left where it is; the caller
\* gets the catalog of a fresh node.
carregar_vetor_documentos(s) ==
    IF VECTOR_FILE \in s.corrupt_files
    THEN [version_confirmed |-> 0, documents_confirmed |-> <<>>]
    ELSE s.vector

\* open(VECTOR_FILE, 'w') replaces whatever the file held.
guardar_vetor_documentos(s, vector_data) ==
    [s EXCEPT !.vector = vector_data, !.corrupt_files = @ \ {VECTOR_FILE}]

\* What an HTTP handler did: the state, what it published, the status code.
Http(s, out, status) == [s |-> s, out |-> out, raised |-> FALSE, status |-> status]

Raise(s) == [s |-> s, out |-> {}, raised |-> TRUE]

Put(f, k, v) == [x \in (DOMAIN f) \cup {k} |-> IF x = k THEN v ELSE f[x]]

Drop(f, k) == [x \in (DOMAIN f) \ {k} |-> f[x]]

is_leader(s) == s.state = LEADER

registar_peer(s, peer_id) == [s EXCEPT !.peers = @ \cup {peer_id}]

obter_contagem_peers(s) == Cardinality(s.peers \cup {s.peer_id})

(***************************************************************************)
(* Heartbeats.                                                              *)
(***************************************************************************)
enviar_heartbeat(s) ==
    IF is_leader(s)
    THEN Reply(registar_peer(s, s.peer_id),
               {[type |-> "leader_heartbeat", leader_id |-> s.peer_id,
                 term |-> s.current_term]})
    ELSE Reply(registar_peer(s, s.peer_id),
               {[type |-> "peer_heartbeat", peer_id |-> s.peer_id]})

(***************************************************************************)
(* Election.                                                                *)
(***************************************************************************)
\* An election start that keeps the term it had.
iniciar_eleicao_mesmo_termo(s) ==
    Reply([s EXCEPT !.state = CANDIDATE,
                    !.voted_for = s.peer_id,
                    !.leader_id = None,
                    !.votes_received = {s.peer_id},
                    !.current_election_term = s.current_term,
                    !.lock = "monitor"],
          {[type |-> "request_vote", candidate_id |-> s.peer_id,
            term |-> s.current_term]})

iniciar_eleicao(s) ==
    LET term == s.current_term + 1
    IN  Reply([s EXCEPT !.state = CANDIDATE,
                        !.current_term = term,
                        !.voted_for = s.peer_id,
                        !.leader_id = None,
                        !.votes_received = {s.peer_id},
                        !.current_election_term = term,
                        !.lock = "monitor"],
              {[type |-> "request_vote", candidate_id |-> s.peer_id, term |-> term]})

tornar_se_lider(s) ==
    [s EXCEPT !.state = LEADER,
              !.leader_id = s.peer_id,
              !.peers = @ \cup {s.peer_id},
              !.http_server = TRUE]

\* One tick of monitor_lider.  startup_elapsed: the time since startup exceeds
\* the random initial timeout; heartbeat_expired: the last leader heartbeat is
\* older than LEADER_TIMEOUT.
monitor_lider(s, startup_elapsed, heartbeat_expired) ==
    IF is_leader(s) \/ s.state # FOLLOWER
    THEN Reply(s, {})
    ELSE IF s.last_leader_heartbeat = None
    THEN IF startup_elapsed THEN iniciar_eleicao(s) ELSE Reply(s, {})
    ELSE IF heartbeat_expired THEN iniciar_eleicao(s) ELSE Reply(s, {})

votos_necessarios(s) == (Cardinality(s.peers) \div 2) + 1

esperar_votos(s) ==
    LET done == IF Cardinality(s.votes_received) >= votos_necessarios(s)
                THEN tornar_se_lider(s)
                ELSE [s EXCEPT !.state = FOLLOWER, !.voted_for = None]
    IN  [done EXCEPT !.last_leader_heartbeat = None, !.lock = "free"]

\* A vote-request handler that adopts any term differing from its own.
processar_pedido_voto_adota_termo(s, candidate_id, term) ==
    IF candidate_id = s.peer_id
    THEN Reply(s, {})
    ELSE LET s1 == IF term # s.current_term
                   THEN [s EXCEPT !.current_term = term,
                                  !.state = FOLLOWER,
                                  !.voted_for = None,
                                  !.leader_id = None]
                   ELSE s
         IN  IF term = s1.current_term /\ s1.voted_for = None
             THEN Reply([s1 EXCEPT !.voted_for = candidate_id],
                        {[type |-> "vote_response", voter_id |-> s.peer_id,
                          candidate_id |-> candidate_id, term |-> term,
                          vote_granted |-> TRUE]})
             ELSE Reply(s1, {})

processar_pedido_voto(s, candidate_id, term) ==
    IF candidate_id = s.peer_id
    THEN Reply(s, {})
    ELSE LET s1 == IF term > s.current_term
                   THEN [s EXCEPT !.current_term = term,
                                  !.state = FOLLOWER,
                                  !.voted_for = None,
                                  !.leader_id = None]
                   ELSE s
         IN  IF term = s1.current_term /\ s1.voted_for = None
             THEN Reply([s1 EXCEPT !.voted_for = candidate_id],
                        {[type |-> "vote_response", voter_id |-> s.peer_id,
                          candidate_id |-> candidate_id, term |-> term,
                          vote_granted |-> TRUE]})
             ELSE Reply(s1, {})

\* A vote count that does not look at the term of the response.
processar_resposta_voto_sem_termo(s, voter_id, candidate_id, term, vote_granted) ==
    IF candidate_id # s.peer_id THEN s
    ELSE IF s.state # CANDIDATE THEN s
    ELSE IF vote_granted /\ voter_id \notin s.votes_received
         THEN [s EXCEPT !.votes_received = @ \cup {voter_id}]
         ELSE s

processar_resposta_voto(s, voter_id, candidate_id, term, vote_granted) ==
    IF candidate_id # s.peer_id THEN s
    ELSE IF term # s.current_election_term THEN s
    ELSE IF s.state # CANDIDATE THEN s
    ELSE IF vote_granted /\ voter_id \notin s.votes_received
         THEN [s EXCEPT !.votes_received = @ \cup {voter_id}]
         ELSE s

\* A heartbeat handler that does not compare terms.
processar_leader_heartbeat_sem_termo(s, leader_id, term) ==
    IF ~is_leader(s)
    THEN [s EXCEPT !.current_term = term,
                   !.leader_id = leader_id,
                   !.last_leader_heartbeat = "seen",
                   !.state = FOLLOWER]
    ELSE s

processar_leader_heartbeat(s, leader_id, term) ==
    IF term >= s.current_term /\ ~is_leader(s)
    THEN [s EXCEPT !.current_term = term,
                   !.leader_id = leader_id,
                   !.last_leader_heartbeat = "seen",
                   !.state = FOLLOWER]
    ELSE s

(***************************************************************************)
(* Document voting.                                                         *)
(***************************************************************************)
\* A vote merge that inserts without discarding the voter from the other set.
add_vote_sem_descartar(s, doc_id, peer_id, vote_type) ==
    IF doc_id \notin DOMAIN s.voting_sessions
    THEN s
    ELSE IF vote_type = "approve"
         THEN [s EXCEPT !.voting_sessions[doc_id].votes_approve = @ \cup {peer_id}]
         ELSE [s EXCEPT !.voting_sessions[doc_id].votes_reject = @ \cup {peer_id}]

add_vote(s, doc_id, peer_id, vote_type) ==
    IF doc_id \notin DOMAIN s.voting_sessions
    THEN s
    ELSE LET session == s.voting_sessions[doc_id]
             approve == session.votes_approve \ {peer_id}
             reject == session.votes_reject \ {peer_id}
         IN  [s EXCEPT !.voting_sessions[doc_id] =
                 IF vote_type = "approve"
                 THEN [session EXCEPT !.votes_approve = approve \cup {peer_id},
                                      !.votes_reject = reject]
                 ELSE [session EXCEPT !.votes_approve = approve,
                                      !.votes_reject = reject \cup {peer_id}]]

\* An ingestion that leaves the session in pending_approval.
finalizar_documento_aprovado_sem_estado(s, doc_id, ipfs_ok) ==
    IF doc_id \notin DOMAIN s.voting_sessions
    THEN Reply(s, {})
    ELSE LET session == s.voting_sessions[doc_id]
             s1 == s
             content == session.content
             entry == DocEntry(content)
             vector == carregar_vetor_documentos(s)
             nova_versao == vector.version_confirmed + 1
             documents == Append(vector.documents_confirmed, entry)
         IN  IF content = NoContent THEN Raise(s1)
             ELSE IF ~ipfs_ok THEN Reply(s1, {})
             ELSE Reply([guardar_vetor_documentos(s1,
                             [version_confirmed |-> nova_versao,
                              documents_confirmed |-> documents])
                            EXCEPT !.embeddings = @ \cup {entry.cid},
                                   !.pending_uploads = @ \ {doc_id}],
                        {[type |-> "version_confirmation_request",
                          version |-> nova_versao,
                          documents |-> documents,
                          cid |-> entry.cid,
                          embedding_cid |-> entry.embedding_cid],
                         [type |-> "document_approved", doc_id |-> doc_id,
                          cid |-> entry.cid, version |-> nova_versao]})

\* An ingestion that writes a catalog holding the new document only.
finalizar_documento_aprovado_substitui(s, doc_id, ipfs_ok) ==
    IF doc_id \notin DOMAIN s.voting_sessions
    THEN Reply(s, {})
    ELSE LET session == s.voting_sessions[doc_id]
             s1 == [s EXCEPT !.voting_sessions[doc_id].status = "approved"]
             content == session.content
             entry == DocEntry(content)
             vector == carregar_vetor_documentos(s)
             nova_versao == vector.version_confirmed + 1
             documents == <<entry>>
         IN  IF content = NoContent THEN Raise(s1)
             ELSE IF ~ipfs_ok THEN Reply(s1, {})
             ELSE Reply([guardar_vetor_documentos(s1,
                             [version_confirmed |-> nova_versao,
                              documents_confirmed |-> documents])
                            EXCEPT !.embeddings = @ \cup {entry.cid},
                                   !.pending_uploads = @ \ {doc_id}],
                        {[type |-> "version_confirmation_request",
                          version |-> nova_versao,
                          documents |-> documents,
                          cid |-> entry.cid,
                          embedding_cid |-> entry.embedding_cid],
                         [type |-> "document_approved", doc_id |-> doc_id,
                          cid |-> entry.cid, version |-> nova_versao]})

\* The leader's ingestion of an approved document.  ipfs_ok is whether the
\* storage layer accepted both adds (a failure of either returns before any
\* file or catalog change).  A session created from a document_proposal has
\* no "content" key: reading it raises, after the status was set.
finalizar_documento_aprovado(s, doc_id, ipfs_ok) ==
    IF doc_id \notin DOMAIN s.voting_sessions
    THEN Reply(s, {})
    ELSE LET session == s.voting_sessions[doc_id]
             s1 == [s EXCEPT !.voting_sessions[doc_id].status = "approved"]
             content == session.content
             entry == DocEntry(content)
             vector == carregar_vetor_documentos(s)
             nova_versao == vector.version_confirmed + 1
             documents == Append(vector.documents_confirmed, entry)
         IN  IF content = NoContent THEN Raise(s1)
             ELSE IF ~ipfs_ok THEN Reply(s1, {})
             ELSE Reply([guardar_vetor_documentos(s1,
                             [version_confirmed |-> nova_versao,
                              documents_confirmed |-> documents])
                            EXCEPT !.embeddings = @ \cup {entry.cid},
                                   !.pending_uploads = @ \ {doc_id}],
                        {[type |-> "version_confirmation_request",
                          version |-> nova_versao,
                          documents |-> documents,
                          cid |-> entry.cid,
                          embedding_cid |-> entry.embedding_cid],
                         [type |-> "document_approved", doc_id |-> doc_id,
                          cid |-> entry.cid, version |-> nova_versao]})

\* A rejection that leaves the pending file in place.
finalizar_rejeitado_sem_limpar(s, doc_id) ==
    IF doc_id \notin DOMAIN s.voting_sessions
    THEN Reply(s, {})
    ELSE Reply([s EXCEPT !.voting_sessions[doc_id].status = "rejected"],
               {[type |-> "document_rejected", doc_id |-> doc_id]})

finalizar_documento_rejeitado(s, doc_id) ==
    IF doc_id \notin DOMAIN s.voting_sessions
    THEN Reply(s, {})
    ELSE Reply([s EXCEPT !.voting_sessions[doc_id].status = "rejected",
                         !.pending_uploads = @ \ {doc_id}],
               {[type |-> "document_rejected", doc_id |-> doc_id]})

\* A result check that does not look at the session's status.
verificar_resultado_sem_estado(s, doc_id, ipfs_ok) ==
    IF ~is_leader(s) THEN Reply(s, {})
    ELSE IF doc_id \notin DOMAIN s.voting_sessions THEN Reply(s, {})
    ELSE LET session == s.voting_sessions[doc_id]
         IN  IF Cardinality(session.votes_approve) >= session.required_votes
             THEN finalizar_documento_aprovado(s, doc_id, ipfs_ok)
             ELSE IF Cardinality(session.votes_reject) >= session.required_votes
                  THEN finalizar_documento_rejeitado(s, doc_id)
             ELSE Reply(s, {})

verificar_resultado_votacao(s, doc_id, ipfs_ok) ==
    IF ~is_leader(s) THEN Reply(s, {})
    ELSE IF doc_id \notin DOMAIN s.voting_sessions THEN Reply(s, {})
    ELSE LET session == s.voting_sessions[doc_id]
         IN  IF session.status # "pending_approval" THEN Reply(s, {})
             ELSE IF Cardinality(session.votes_approve) >= session.required_votes
                  THEN finalizar_documento_aprovado(s, doc_id, ipfs_ok)
             ELSE IF Cardinality(session.votes_reject) >= session.required_votes
                  THEN finalizar_documento_rejeitado(s, doc_id)
             ELSE Reply(s, {})

\* An automatic vote that is recorded and published but never counted.
votar_sem_verificar(s, doc_id, vote_type, ipfs_ok) ==
    Reply(add_vote(s, doc_id, s.peer_id, vote_type),
          {[type |-> "peer_vote", doc_id |-> doc_id,
            vote |-> vote_type, peer_id |-> s.peer_id]})

votar_automaticamente(s, doc_id, vote_type, ipfs_ok) ==
    LET voto_registado == doc_id \in DOMAIN s.voting_sessions
        s1 == add_vote(s, doc_id, s.peer_id, vote_type)
        r == IF voto_registado /\ is_leader(s1)
             THEN verificar_resultado_votacao(s1, doc_id, ipfs_ok)
             ELSE Reply(s1, {})
    IN  IF r.raised
        THEN r
        ELSE Reply(r.s, r.out \cup {[type |-> "peer_vote", doc_id |-> doc_id,
                                     vote |-> vote_type, peer_id |-> s.peer_id]})

\* A peer_vote handler that counts the votes on every node, leader or not.
processar_peer_vote_em_qualquer_no(s, doc_id, peer_id, vote, ipfs_ok) ==
    IF peer_id = s.peer_id THEN Reply(s, {})
    ELSE IF doc_id \in DOMAIN s.voting_sessions
         THEN LET s1 == add_vote(s, doc_id, peer_id, vote)
                  session == s1.voting_sessions[doc_id]
              IN  IF session.status # "pending_approval" THEN Reply(s1, {})
                  ELSE IF Cardinality(session.votes_approve) >= session.required_votes
                       THEN finalizar_documento_aprovado(s1, doc_id, ipfs_ok)
                  ELSE IF Cardinality(session.votes_reject) >= session.required_votes
                       THEN finalizar_documento_rejeitado(s1, doc_id)
                  ELSE Reply(s1, {})
         ELSE Reply(s, {})

processar_peer_vote(s, doc_id, peer_id, vote, ipfs_ok) ==
    IF peer_id = s.peer_id THEN Reply(s, {})
    ELSE IF doc_id \in DOMAIN s.voting_sessions
         THEN LET s1 == add_vote(s, doc_id, peer_id, vote)
              IN  IF is_leader(s1)
                  THEN verificar_resultado_votacao(s1, doc_id, ipfs_ok)
                  ELSE Reply(s1, {})
         ELSE Reply(s, {})

processar_document_proposal(s, m) ==
    LET s1 == IF m.doc_id \notin DOMAIN s.voting_sessions
              THEN [s EXCEPT !.voting_sessions = Put(@, m.doc_id,
                       [status |-> "pending_approval",
                        content |-> NoContent,
                        total_peers |-> m.total_peers,
                        required_votes |-> m.required_votes,
                        votes_approve |-> {},
                        votes_reject |-> {}])]
              ELSE s
    IN  IF ~is_leader(s1)
        THEN [s1 EXCEPT !.timers[m.doc_id] = @ + 1]
        ELSE s1

\* An upload whose session needs one vote whatever the peer count.
upload_file_um_voto(s, doc_id, write_ok) ==
    IF ~is_leader(s)
    THEN Http(s, {}, 403)
    ELSE LET total_peers == obter_contagem_peers(s)
             s1 == [s EXCEPT !.peers = @ \cup {s.peer_id},
                             !.voting_sessions = Put(@, doc_id,
                                [status |-> "pending_approval",
                                 content |-> Content(doc_id),
                                 total_peers |-> total_peers,
                                 required_votes |-> 1,
                                 votes_approve |-> {},
                                 votes_reject |-> {}])]
         IN  IF ~write_ok
             THEN Http(s1, {}, 500)
             ELSE Http([s1 EXCEPT !.pending_uploads = @ \cup {doc_id},
                                  !.timers[doc_id] = @ + 1],
                       {[type |-> "document_proposal", doc_id |-> doc_id,
                         total_peers |-> total_peers,
                         required_votes |-> 1,
                         from_peer |-> s.peer_id]},
                       200)

\* POST /upload.  write_ok is whether the pending file could be written: the
\* session is stored before the write, and an exception in the handler is
\* answered with 500.
upload_file(s, doc_id, write_ok) ==
    IF ~is_leader(s)
    THEN Http(s, {}, 403)
    ELSE LET total_peers == obter_contagem_peers(s)
             required_votes == (total_peers \div 2) + 1
             s1 == [s EXCEPT !.peers = @ \cup {s.peer_id},
                             !.voting_sessions = Put(@, doc_id,
                                [status |-> "pending_approval",
                                 content |-> Content(doc_id),
                                 total_peers |-> total_peers,
                                 required_votes |-> required_votes,
                                 votes_approve |-> {},
                                 votes_reject |-> {}])]
         IN  IF ~write_ok
             THEN Http(s1, {}, 500)
             ELSE Http([s1 EXCEPT !.pending_uploads = @ \cup {doc_id},
                                  !.timers[doc_id] = @ + 1],
                       {[type |-> "document_proposal", doc_id |-> doc_id,
                         total_peers |-> total_peers,
                         required_votes |-> required_votes,
                         from_peer |-> s.peer_id]},
                       200)

(***************************************************************************)
(* Two-phase version commit.                                                *)
(***************************************************************************)
\* Returns the state and, when the request was staged, the hash computed.
processar_pedido_confirmacao(s, version, documents, cid, embedding_cid, ipfs_ok) ==
    IF version <= carregar_vetor_documentos(s).version_confirmed
    THEN [s |-> s, staged |-> FALSE]
    ELSE IF ~ipfs_ok
    THEN [s |-> s, staged |-> FALSE]
    ELSE LET hash_calculado == calcular_hash_vetor(documents)
         IN  [s |-> [s EXCEPT !.temp_embeddings = @ \cup {cid},
                              !.temp_vectors = Put(@, cid,
                                  [version |-> version,
                                   hash |-> hash_calculado,
                                   documents |-> documents])],
              staged |-> TRUE,
              hash |-> hash_calculado]

enviar_confirmacao_ao_lider(s, version, hash_vetor) ==
    {[type |-> "version_confirmation", peer_id |-> s.peer_id,
      version |-> version, hash |-> hash_vetor]}

reconstruir_faiss(s) ==
    LET docs == carregar_vetor_documentos(s).documents_confirmed
        present == SelectSeq(docs, LAMBDA d : d.embedding_file \in s.embeddings)
    IN  IF Len(present) = 0
        THEN s
        ELSE [s EXCEPT !.faiss_index = [i \in 1..Len(present) |-> present[i].cid]]

atualizar_faiss_apos_commit(s) ==
    LET moved == s.temp_embeddings
        s1 == [s EXCEPT !.embeddings = @ \cup moved, !.temp_embeddings = {}]
    IN  IF moved # {} THEN reconstruir_faiss(s1) ELSE s1

\* A lookup of the staged entry that compares the version only.
StagedMatchesVersionOnly(s, version, hash_recebido) ==
    {cid \in DOMAIN s.temp_vectors : s.temp_vectors[cid].version = version}

StagedMatches(s, version, hash_recebido) ==
    {cid \in DOMAIN s.temp_vectors :
        /\ s.temp_vectors[cid].version = version
        /\ s.temp_vectors[cid].hash = hash_recebido}

processar_commit_lider(s, version, hash_recebido) ==
    LET found == StagedMatches(s, version, hash_recebido)
    IN  IF found = {}
        THEN s
        ELSE LET temp_cid == CHOOSE cid \in found : TRUE
                 temp_data == s.temp_vectors[temp_cid]
             IN  atualizar_faiss_apos_commit(
                     [guardar_vetor_documentos(s,
                          [version_confirmed |-> version,
                           documents_confirmed |-> temp_data.documents])
                      EXCEPT !.temp_vectors = Drop(@, temp_cid)])

enviar_commit(s, version, hash_commit) ==
    {[type |-> "vector_commit", version |-> version, hash |-> hash_commit,
      leader_id |-> s.peer_id]}

processar_version_confirmation(s, version, hash_peer, peer_id) ==
    IF ~is_leader(s)
    THEN Reply(s, {})
    ELSE LET old == IF version \in DOMAIN s.version_confirmations
                    THEN s.version_confirmations[version]
                    ELSE {}
             peers_set == old \cup {<<peer_id, hash_peer>>}
             s1 == [s EXCEPT !.version_confirmations = Put(@, version, peers_set),
                             !.peers = @ \cup {s.peer_id}]
             confirmacoes == Cardinality(peers_set)
             maioria == (obter_contagem_peers(s) \div 2) + 1
         IN  IF confirmacoes >= maioria
             THEN Reply(s1, enviar_commit(s1, version, hash_peer))
             ELSE Reply(s1, {})

(***************************************************************************)
(* Search.                                                                  *)
(***************************************************************************)
Token(search_id) == <<"token", search_id>>

\* sorted(node_ctx.peers.keys())
NodeOrder == <<"n1", "n2", "n3">>

sorted(peers) == SelectSeq(NodeOrder, LAMBDA p : p \in peers)

\* A dispatch that leaves the cursor where it was.
start_search_sem_avanco(s, search_id, token) ==
    IF ~is_leader(s)
    THEN Http(s, {}, 403)
    ELSE LET peers == sorted(s.peers)
             alone == Len(peers) <= 1
             target_peer == IF alone THEN s.peer_id
                            ELSE peers[(s.last_search_peer_index % Len(peers)) + 1]
             s1 == [s EXCEPT !.search_requests = Put(@, search_id,
                                 [token |-> token, peer_id |-> target_peer])]
         IN  IF target_peer = s.peer_id /\ alone
             THEN Http([s1 EXCEPT !.search_jobs = @ \cup
                           {[search_id |-> search_id, token |-> token,
                             leader_id |-> s.peer_id]}],
                       {}, 200)
             ELSE Http(s1, {[type |-> "search_request", search_id |-> search_id,
                             token |-> token, target_peer |-> target_peer,
                             leader_id |-> s.peer_id]},
                       200)

\* POST /search: the request is recorded with the peer chosen round-robin in
\* the sorted registry; a registry of at most one peer is served locally.
start_search(s, search_id, token) ==
    IF ~is_leader(s)
    THEN Http(s, {}, 403)
    ELSE LET peers == sorted(s.peers)
             alone == Len(peers) <= 1
             target_peer == IF alone THEN s.peer_id
                            ELSE peers[(s.last_search_peer_index % Len(peers)) + 1]
             s1 == [s EXCEPT !.last_search_peer_index = IF alone THEN @ ELSE @ + 1,
                             !.search_requests = Put(@, search_id,
                                 [token |-> token, peer_id |-> target_peer])]
         IN  IF target_peer = s.peer_id /\ alone
             THEN Http([s1 EXCEPT !.search_jobs = @ \cup
                           {[search_id |-> search_id, token |-> token,
                             leader_id |-> s.peer_id]}],
                       {}, 200)
             ELSE Http(s1, {[type |-> "search_request", search_id |-> search_id,
                             token |-> token, target_peer |-> target_peer,
                             leader_id |-> s.peer_id]},
                       200)

\* A poll that does not compare the token.
get_search_result_sem_token(s, search_id, token) ==
    IF search_id \notin DOMAIN s.search_requests
    THEN Http(s, {}, 404)
    ELSE LET req == s.search_requests[search_id]
             here == search_id \in DOMAIN s.search_results
         IN  IF req.peer_id = s.peer_id
             THEN Http(s, {}, IF here THEN 200 ELSE 202)
             ELSE Http(s, {[type |-> "search_result_request",
                            search_id |-> search_id,
                            from_leader |-> s.peer_id,
                            target_peer |-> req.peer_id]},
                       IF here /\ s.search_results[search_id].peer_id = req.peer_id
                       THEN 200 ELSE 202)

\* GET /search/{search_id}?token=...  A result held by another peer is asked
\* for on the bus; the answer is 200 when the result is here, 202 otherwise.
get_search_result(s, search_id, token) ==
    IF search_id \notin DOMAIN s.search_requests
    THEN Http(s, {}, 404)
    ELSE LET req == s.search_requests[search_id]
             here == search_id \in DOMAIN s.search_results
         IN  IF req.token # token
             THEN Http(s, {}, 403)
             ELSE IF req.peer_id = s.peer_id
             THEN Http(s, {}, IF here THEN 200 ELSE 202)
             ELSE Http(s, {[type |-> "search_result_request",
                            search_id |-> search_id,
                            from_leader |-> s.peer_id,
                            target_peer |-> req.peer_id]},
                       IF here /\ s.search_results[search_id].peer_id = req.peer_id
                       THEN 200 ELSE 202)

\* The hits of a search: the catalog entries at the positions of the index.
Hits(s) ==
    LET docs == carregar_vetor_documentos(s).documents_confirmed
    IN  SelectSeq([i \in 1..Len(s.faiss_index) |->
                      IF i <= Len(docs) THEN docs[i].cid ELSE None],
                  LAMBDA h : h # None)

processar_pesquisa_faiss(s, search_id, token, leader_id) ==
    Reply([s EXCEPT !.search_results = Put(@, search_id,
               [token |-> token, results |-> Hits(s), peer_id |-> s.peer_id])],
          {[type |-> "search_result_ready", search_id |-> search_id,
            peer_id |-> s.peer_id]})

processar_search_request(s, m) ==
    IF m.target_peer # s.peer_id
    THEN s
    ELSE [s EXCEPT !.search_jobs = @ \cup
             {[search_id |-> m.search_id, token |-> m.token,
               leader_id |-> m.leader_id]}]

processar_search_result_request(s, m) ==
    IF m.target_peer # s.peer_id THEN Reply(s, {})
    ELSE IF m.search_id \notin DOMAIN s.search_results THEN Reply(s, {})
    ELSE Reply(s, {[type |-> "search_result_response", search_id |-> m.search_id,
                    peer_id |-> s.peer_id,
                    results |-> s.search_results[m.search_id].results]})

processar_search_result_response(s, m) ==
    LET token == IF m.search_id \in DOMAIN s.search_requests
                 THEN s.search_requests[m.search_id].token
                 ELSE None
    IN  [s EXCEPT !.search_results = Put(@, m.search_id,
            [token |-> token, results |-> m.results, peer_id |-> m.peer_id])]

(***************************************************************************)
(* The subscription consumer: one envelope, dispatched on its type.         *)
(***************************************************************************)
processar_mensagem_pubsub(s, m, ipfs_ok) ==
    CASE m.type = "peer_heartbeat" ->
            Reply(registar_peer(s, m.peer_id), {})
      [] m.type = "leader_heartbeat" ->
            Reply(processar_leader_heartbeat(s, m.leader_id, m.term), {})
      [] m.type = "request_vote" ->
            processar_pedido_voto(s, m.candidate_id, m.term)
      [] m.type = "vote_response" ->
            Reply(processar_resposta_voto(s, m.voter_id, m.candidate_id, m.term,
                                          m.vote_granted), {})
      [] m.type = "document_proposal" ->
            Reply(processar_document_proposal(s, m), {})
      [] m.type = "peer_vote" ->
            processar_peer_vote(s, m.doc_id, m.peer_id, m.vote, ipfs_ok)
      [] m.type = "version_confirmation_request" ->
            LET r == processar_pedido_confirmacao(s, m.version, m.documents, m.cid,
                                                  m.embedding_cid, ipfs_ok)
            IN  IF r.staged
                THEN Reply(r.s, enviar_confirmacao_ao_lider(r.s, m.version, r.hash))
                ELSE Reply(r.s, {})
      [] m.type = "version_confirmation" ->
            processar_version_confirmation(s, m.version, m.hash, m.peer_id)
      [] m.type = "vector_commit" ->
            Reply(processar_commit_lider(s, m.version, m.hash), {})
      [] m.type = "search_request" ->
            Reply(processar_search_request(s, m), {})
      [] m.type = "search_result_request" ->
            processar_search_result_request(s, m)
      [] m.type = "search_result_response" ->
            Reply(processar_search_result_response(s, m), {})
      [] OTHER -> Reply(s, {})

(***************************************************************************)
(* The environment: which peers run, which peer's frames reach which peer,  *)
(* and how many heartbeats, election timeouts, uploads, manual votes,       *)
(* storage faults and automatic-vote timers per document are still to come. *)
(* Two history variables record what the peers did: auto_fired[n][d] counts *)
(* the automatic votes n published for d, adopted[n] is the set of          *)
(* <<version, hash>> commits n adopted.                                     *)
(***************************************************************************)
Environment(cluster, links, heartbeats, timeouts, uploads, manual, faults, timers) ==
    [cluster |-> cluster, links |-> links, heartbeats |-> heartbeats,
     timeouts |-> timeouts, uploads |-> uploads, manual |-> manual,
     faults |-> faults, timers |-> timers,
     searches |-> [n \in Node |-> 0], stops |-> {}, corruptions |-> {}]

\* The environment e, with the searches clients still start at each peer.
WithSearches(e, searches) == [e EXCEPT !.searches = searches]

\* The environment e, with the peers an operator still interrupts.
WithStops(e, stops) == [e EXCEPT !.stops = stops]

\* The environment e, with the peers whose catalog file may still be damaged.
WithCorruptions(e, corruptions) == [e EXCEPT !.corruptions = corruptions]

InitWith(e) ==
    /\ node = [n \in Node |-> [NodeContext(n) EXCEPT !.running = (n \in e.cluster)]]
    /\ msgs = {}
    /\ auto_fired = [n \in Node |-> [d \in DocId |-> 0]]
    /\ adopted = [n \in Node |-> {}]
    /\ env = e

\* A frame of the bus: the envelope and the peer that published it.
Frames(n, out) == {[from |-> n, body |-> b] : b \in out}

Bodies(type) == {f.body : f \in {g \in msgs : g.body.type = type}}

Running(n) == node[n].running /\ node[n].lock = "free"

\* Storage outcomes still possible: a failure only while faults remain.
Storage == IF env.faults > 0 THEN {TRUE, FALSE} ELSE {TRUE}

\* A storage failure is spent when it changed what the handler did.
Spend(ipfs_ok, r, r_ok) ==
    IF ~ipfs_ok /\ r # r_ok THEN [env EXCEPT !.faults = @ - 1] ELSE env

(***************************************************************************)
(* Actions.                                                                 *)
(***************************************************************************)
Heartbeat(n) ==
    /\ Running(n)
    /\ env.heartbeats[n] > 0
    /\ LET r == enviar_heartbeat(node[n])
       IN  /\ node' = [node EXCEPT ![n] = r.s]
           /\ msgs' = msgs \cup Frames(n, r.out)
    /\ env' = [env EXCEPT !.heartbeats[n] = @ - 1]
    /\ UNCHANGED <<auto_fired, adopted>>

Deliver(n, f) ==
    /\ Running(n)
    /\ f \in msgs
    /\ <<f.from, n>> \in env.links
    /\ \E ipfs_ok \in Storage :
         LET r == processar_mensagem_pubsub(node[n], f.body, ipfs_ok)
             r_ok == processar_mensagem_pubsub(node[n], f.body, TRUE)
         IN  /\ \A d \in DocId : r.s.timers[d] + auto_fired[n][d] <= env.timers
             /\ node' = [node EXCEPT ![n] = r.s]
             /\ msgs' = msgs \cup Frames(n, r.out)
             /\ env' = Spend(ipfs_ok, r, r_ok)
             /\ adopted' = IF f.body.type = "vector_commit" /\ r.s # node[n]
                           THEN [adopted EXCEPT ![n] =
                                    @ \cup {<<f.body.version, f.body.hash>>}]
                           ELSE adopted
    /\ UNCHANGED auto_fired

MonitorLider(n) ==
    /\ Running(n)
    /\ node[n].state = FOLLOWER
    /\ node[n].current_term < MaxTerm
    /\ env.timeouts[n] > 0
    /\ \E startup_elapsed \in BOOLEAN : \E heartbeat_expired \in BOOLEAN :
         LET r == monitor_lider(node[n], startup_elapsed, heartbeat_expired)
         IN  /\ r.out # {}
             /\ node' = [node EXCEPT ![n] = r.s]
             /\ msgs' = msgs \cup Frames(n, r.out)
    /\ env' = [env EXCEPT !.timeouts[n] = @ - 1]
    /\ UNCHANGED <<auto_fired, adopted>>

EsperarVotos(n) ==
    /\ node[n].running
    /\ node[n].lock = "monitor"
    /\ node' = [node EXCEPT ![n] = esperar_votos(node[n])]
    /\ UNCHANGED <<msgs, auto_fired, adopted, env>>

\* Ctrl+C: the process leaves, whatever its threads were doing.
signal_handler(s) == [s EXCEPT !.running = FALSE, !.http_server = FALSE]

Stop(n) ==
    /\ node[n].running
    /\ n \in env.stops
    /\ node' = [node EXCEPT ![n] = signal_handler(node[n])]
    /\ env' = [env EXCEPT !.stops = @ \ {n}]
    /\ UNCHANGED <<msgs, auto_fired, adopted>>

\* The catalog file, once written, is damaged on disk (a torn write, a bad
\* sector): it no longer parses.
Corrupt(n) ==
    /\ n \in env.corruptions
    /\ node[n].vector.version_confirmed > 0
    /\ VECTOR_FILE \notin node[n].corrupt_files
    /\ node' = [node EXCEPT ![n].corrupt_files = @ \cup {VECTOR_FILE}]
    /\ env' = [env EXCEPT !.corruptions = @ \ {n}]
    /\ UNCHANGED <<msgs, auto_fired, adopted>>

\* The identifier of an upload is fresh (a uuid): the uploading peer and the
\* number of uploads it still expects.
Upload(n) ==
    /\ Running(n)
    /\ node[n].http_server
    /\ env.uploads[n] > 0
    /\ \E write_ok \in Storage :
         LET doc_id == <<n, env.uploads[n]>>
             r == upload_file(node[n], doc_id, write_ok)
         IN  /\ node' = [node EXCEPT ![n] = r.s]
             /\ msgs' = msgs \cup Frames(n, r.out)
             /\ env' = IF r.status = 403 THEN env
                       ELSE [env EXCEPT !.uploads[n] = @ - 1,
                                        !.faults = IF write_ok THEN @ ELSE @ - 1]
    /\ UNCHANGED <<auto_fired, adopted>>

AutoVote(n, d) ==
    /\ Running(n)
    /\ node[n].timers[d] > 0
    /\ \E ipfs_ok \in Storage :
         LET s0 == [node[n] EXCEPT !.timers[d] = @ - 1]
             r == votar_automaticamente(s0, d, "approve", ipfs_ok)
             r_ok == votar_automaticamente(s0, d, "approve", TRUE)
         IN  /\ node' = [node EXCEPT ![n] = r.s]
             /\ msgs' = msgs \cup Frames(n, r.out)
             /\ env' = Spend(ipfs_ok, r, r_ok)
             /\ auto_fired' = [auto_fired EXCEPT ![n][d] =
                                  IF r.raised THEN @ ELSE @ + 1]
    /\ UNCHANGED adopted

\* A peer's operator votes by hand: the vote is published as a peer_vote.
propagate_vote(peer_id, doc_id, vote_type) ==
    [type |-> "peer_vote", doc_id |-> doc_id, vote |-> vote_type, peer_id |-> peer_id]

ManualVote(p, d, vote) ==
    /\ env.manual > 0
    /\ p \in env.cluster
    /\ d \in {b.doc_id : b \in Bodies("document_proposal")}
    /\ Frames(p, {propagate_vote(p, d, vote)}) \cap msgs = {}
    /\ msgs' = msgs \cup Frames(p, {propagate_vote(p, d, vote)})
    /\ env' = [env EXCEPT !.manual = @ - 1]
    /\ UNCHANGED <<node, auto_fired, adopted>>

\* The identifier and the token of a search are fresh (uuids).
StartSearch(n) ==
    /\ Running(n)
    /\ node[n].http_server
    /\ env.searches[n] > 0
    /\ LET search_id == <<n, env.searches[n]>>
           r == start_search(node[n], search_id, Token(search_id))
       IN  /\ node' = [node EXCEPT ![n] = r.s]
           /\ msgs' = msgs \cup Frames(n, r.out)
           /\ env' = IF r.status = 403 THEN env
                     ELSE [env EXCEPT !.searches[n] = @ - 1]
    /\ UNCHANGED <<auto_fired, adopted>>

\* A search thread started by POST /search or by a search_request.
ProcessarPesquisa(n, job) ==
    /\ Running(n)
    /\ job \in node[n].search_jobs
    /\ LET s0 == [node[n] EXCEPT !.search_jobs = @ \ {job}]
           r == processar_pesquisa_faiss(s0, job.search_id, job.token, job.leader_id)
       IN  /\ node' = [node EXCEPT ![n] = r.s]
           /\ msgs' = msgs \cup Frames(n, r.out)
    /\ UNCHANGED <<auto_fired, adopted, env>>

\* A client polls with an identifier and a token, its own or not.
GetSearchResult(n, search_id, token) ==
    /\ Running(n)
    /\ node[n].http_server
    /\ LET r == get_search_result(node[n], search_id, token)
       IN  /\ node' = [node EXCEPT ![n] = r.s]
           /\ msgs' = msgs \cup Frames(n, r.out)
    /\ UNCHANGED <<auto_fired, adopted, env>>

Next ==
    \/ \E n \in Node : Heartbeat(n)
    \/ \E n \in Node : \E f \in msgs : Deliver(n, f)
    \/ \E n \in Node : MonitorLider(n)
    \/ \E n \in Node : EsperarVotos(n)
    \/ \E n \in Node : Upload(n)
    \/ \E n \in Node : \E d \in DocId : AutoVote(n, d)
    \/ \E p \in Node : \E d \in DocId : \E v \in {"approve", "reject"} : ManualVote(p, d, v)

(***************************************************************************)
(* Specifications: the same program in different environments.              *)
(***************************************************************************)
Only(S, k) == [n \in Node |-> IF n \in S THEN k ELSE 0]

AllLinks == Node \X Node

\* n1 and n2 do not hear each other; both hear n3 and n3 hears both.
Partitioned == AllLinks \ {<<"n1", "n2">>, <<"n2", "n1">>}

\* As Partitioned, and n2 hears nobody but itself.
OneWay == Partitioned \ {<<"n3", "n2">>}

NextElection ==
    \/ \E n \in Node : Heartbeat(n)
    \/ \E n \in Node : \E f \in msgs : Deliver(n, f)
    \/ \E n \in Node : MonitorLider(n)
    \/ \E n \in Node : EsperarVotos(n)

NextIngest ==
    \/ \E n \in Node : \E f \in msgs : Deliver(n, f)
    \/ \E n \in Node : MonitorLider(n)
    \/ \E n \in Node : EsperarVotos(n)
    \/ \E n \in Node : Upload(n)
    \/ \E n \in Node : \E d \in DocId : AutoVote(n, d)

NextSplit ==
    \/ NextIngest
    \/ \E n \in Node : Heartbeat(n)

SearchJobs ==
    [search_id : SearchId, token : {Token(i) : i \in SearchId}, leader_id : Node]

NextSearch ==
    \/ \E n \in Node : Heartbeat(n)
    \/ \E n \in Node : \E f \in msgs : Deliver(n, f)
    \/ \E n \in Node : MonitorLider(n)
    \/ \E n \in Node : EsperarVotos(n)
    \/ \E n \in Node : StartSearch(n)
    \/ \E n \in Node : \E job \in SearchJobs : ProcessarPesquisa(n, job)
    \/ \E n \in Node : \E i \in SearchId : \E j \in SearchId :
          GetSearchResult(n, i, Token(j))

\* Two peers, n2 heartbeats once, n1 may time out once and receives one
\* upload; votes by hand,
\* a storage fault and a redelivered proposal may happen.
Init ==
    InitWith(Environment({"n1", "n2"}, AllLinks, Only({"n2"}, 1),
                         Only({"n1"}, 1), Only({"n1"}, 1), 2, 1, MaxTimers))

Spec == Init /\ [][Next]_vars

\* Three peers, n2 and n3 heartbeat once, n1 may time out twice and the
\* others once; no documents.
InitElection ==
    InitWith(Environment(Node, AllLinks, Only({"n2", "n3"}, 1),
                         [n \in Node |-> IF n = "n1" THEN 2 ELSE 1],
                         Only({}, 0), 0, 0, 1))

SpecElection == InitElection /\ [][NextElection]_vars

\* Two peers, n1 elects itself and receives two uploads.
InitCommit ==
    InitWith(Environment({"n1", "n2"}, AllLinks, Only({}, 0), Only({"n1"}, 1),
                         Only({"n1"}, MaxDocs), 0, 0, 1))

SpecCommit == InitCommit /\ [][NextIngest]_vars

\* Three peers, n1 and n2 partitioned from each other; each may time out once
\* and receives one upload.
InitTwoLeaders ==
    InitWith(Environment(Node, Partitioned, Only({}, 0), Only({"n1", "n2"}, 1),
                         Only({"n1", "n2"}, 1), 0, 0, 1))

SpecTwoLeaders == InitTwoLeaders /\ [][NextIngest]_vars

\* As SpecTwoLeaders with n2 hearing nobody, and n3 heartbeating once.
InitSplit ==
    InitWith(Environment(Node, OneWay, Only({"n3"}, 1), Only({"n1", "n2"}, 1),
                         Only({"n1", "n2"}, 1), 0, 0, 1))

SpecSplit == InitSplit /\ [][NextSplit]_vars

(***************************************************************************)
(* Properties.                                                              *)
(***************************************************************************)
Catalog(n) == node[n].vector

Cluster == env.cluster

\* C1: any two nodes whose catalogs have the same version_confirmed have equal
\* documents_confirmed lists (same hash), leaders and followers alike.
C1_SameVersionSameDocuments ==
    \A n1 \in Cluster : \A n2 \in Cluster :
        Catalog(n1).version_confirmed = Catalog(n2).version_confirmed
        => calcular_hash_vetor(Catalog(n1).documents_confirmed)
           = calcular_hash_vetor(Catalog(n2).documents_confirmed)

\* C2: on every node, every step stores a version_confirmed greater than or
\* equal to the one stored before.
C2_VersionNeverDecreases ==
    [][\A n \in Node :
          node'[n].vector.version_confirmed >= node[n].vector.version_confirmed]_vars

MaxTermHeld ==
    CHOOSE t \in {node[n].current_term : n \in Cluster} :
        \A n \in Cluster : node[n].current_term <= t

\* C3: at most one node is Leader with current_term equal to the maximum term
\* held in the cluster; two nodes are never both Leader in the same term.
C3_OneLeaderPerTerm ==
    /\ Cardinality({n \in Cluster : /\ node[n].state = LEADER
                                    /\ node[n].current_term = MaxTermHeld}) <= 1
    /\ \A n1 \in Cluster : \A n2 \in Cluster :
          /\ node[n1].state = LEADER
          /\ node[n2].state = LEADER
          /\ node[n1].current_term = node[n2].current_term
          => n1 = n2

\* The candidates p has voted for in a term: itself when it published a
\* request_vote for the term, and the candidate of every granted
\* vote_response it published for the term.
VotedFor(p, term) ==
    {b.candidate_id : b \in {c \in Bodies("request_vote") :
                                c.candidate_id = p /\ c.term = term}}
    \cup {b.candidate_id : b \in {c \in Bodies("vote_response") :
                                     /\ c.voter_id = p
                                     /\ c.term = term
                                     /\ c.vote_granted}}

\* C4: for every node P and term T, the candidates P has voted for in T form a
\* set of at most one candidate.
C4_OneVotePerTerm ==
    \A p \in Node : \A term \in 1..(MaxTerm + 1) :
        Cardinality(VotedFor(p, term)) <= 1

\* The versions and hashes that requests and commits on the bus carry.
CommitVersions ==
    {b.version : b \in Bodies("version_confirmation_request") \cup Bodies("vector_commit")}

CommitHashes ==
    {calcular_hash_vetor(b.documents) : b \in Bodies("version_confirmation_request")}
    \cup {b.hash : b \in Bodies("vector_commit")}

HasStaged(s, version, hash) ==
    \E cid \in DOMAIN s.temp_vectors :
        /\ s.temp_vectors[cid].version = version
        /\ s.temp_vectors[cid].hash = hash

\* C5: a node processing vector_commit(version, hash) changes its catalog only
\* if it holds a staged entry with that version and that hash; with no such
\* entry the catalog and the staged map are left unchanged.
C5_CommitNeedsStagedMatch ==
    \A n \in Node : \A version \in CommitVersions : \A hash \in CommitHashes :
        LET s1 == processar_commit_lider(node[n], version, hash)
        IN  \/ HasStaged(node[n], version, hash)
            \/ /\ s1.vector = node[n].vector
               /\ s1.temp_vectors = node[n].temp_vectors

\* A node holds a staged entry for the version of a commit on the bus, with
\* another hash, and none with the commit's hash.
C5_Witness ==
    \E n \in Node : \E c \in Bodies("vector_commit") :
        /\ ~HasStaged(node[n], c.version, c.hash)
        /\ \E cid \in DOMAIN node[n].temp_vectors :
              /\ node[n].temp_vectors[cid].version = c.version
              /\ node[n].temp_vectors[cid].hash # c.hash
        /\ adopted[n] # {}

\* The peers that have sent a version_confirmation for the version carrying
\* exactly the hash.
Confirmers(version, hash) ==
    {b.peer_id : b \in {c \in Bodies("version_confirmation") :
                           c.version = version /\ c.hash = hash}}

\* C6: whenever a leader broadcasts vector_commit(version, hash), at least
\* floor(|peers|/2)+1 distinct peers have sent a version_confirmation for that
\* version with exactly that hash.
C6_CommitHasMajority ==
    [][\A f \in msgs' \ msgs :
          f.body.type = "vector_commit"
          => Cardinality(Confirmers(f.body.version, f.body.hash))
             >= (Cardinality(node'[f.from].peers) \div 2) + 1]_vars

\* C7: in every voting session every peer is in at most one of votes_approve
\* and votes_reject, and add_vote puts the voter in the set its vote names,
\* out of the other one, and moves no other voter.
C7_VoterInOneSet ==
    \A n \in Node : \A d \in DOMAIN node[n].voting_sessions :
        LET session == node[n].voting_sessions[d]
        IN  /\ session.votes_approve \cap session.votes_reject = {}
            /\ \A p \in Node : \A vote_type \in {"approve", "reject"} :
                  LET after == add_vote(node[n], d, p, vote_type).voting_sessions[d]
                      named == IF vote_type = "approve"
                               THEN after.votes_approve ELSE after.votes_reject
                      other == IF vote_type = "approve"
                               THEN after.votes_reject ELSE after.votes_approve
                  IN  /\ p \in named
                      /\ p \notin other
                      /\ after.votes_approve \ {p} = session.votes_approve \ {p}
                      /\ after.votes_reject \ {p} = session.votes_reject \ {p}

\* A session was approved and an approver has since moved to votes_reject: a
\* later vote superseded an earlier one.
C7_Witness ==
    \E n \in Node : \E d \in DOMAIN node[n].voting_sessions :
        LET session == node[n].voting_sessions[d]
        IN  /\ session.status = "approved"
            /\ Cardinality(session.votes_approve) < session.required_votes
            /\ session.votes_reject # {}

\* C8: at a leader, processing the same peer_vote a second time leaves the
\* node (sessions, status, catalog) as the first time left it and publishes
\* nothing; no document is ingested more than once.
C8_PeerVoteRedeliveryIsNoOp ==
    /\ \A n \in Node :
          is_leader(node[n]) =>
          \A d \in DOMAIN node[n].voting_sessions :
          \A p \in Node : \A vote \in {"approve", "reject"} :
          \A ok1 \in BOOLEAN : \A ok2 \in BOOLEAN :
              LET r1 == processar_peer_vote(node[n], d, p, vote, ok1)
                  r2 == processar_peer_vote(r1.s, d, p, vote, ok2)
              IN  r2.s = r1.s /\ r2.out = {}
    /\ \A d \in DocId :
          Cardinality({b \in Bodies("document_approved") : b.doc_id = d}) <= 1

\* A leader ingested a document whose approval needed another peer's vote,
\* and that peer's vote is on the bus, free to be delivered again.
C8_Witness ==
    \E n \in Node : \E d \in DOMAIN node[n].voting_sessions :
        LET session == node[n].voting_sessions[d]
        IN  /\ is_leader(node[n])
            /\ session.status = "approved"
            /\ session.required_votes >= 2
            /\ \E b \in Bodies("document_approved") : b.doc_id = d
            /\ \E p \in session.votes_approve \ {n} :
                  propagate_vote(p, d, "approve") \in Bodies("peer_vote")

\* C9: once a node has adopted vector_commit(version, hash), processing the
\* same vector_commit again leaves its catalog, its staged map and its
\* similarity index unchanged.
C9_RedeliveryAfterAdoptionIsNoOp ==
    \A n \in Node : \A c \in adopted[n] :
        LET s1 == processar_commit_lider(node[n], c[1], c[2])
        IN  /\ s1.vector = node[n].vector
            /\ s1.temp_vectors = node[n].temp_vectors
            /\ s1.faiss_index = node[n].faiss_index

\* C10: for every node and document, the node publishes at most one automatic
\* peer_vote, however many times the proposal is delivered.
C10_AutoVoteFiresOnce ==
    \A n \in Node : \A d \in DocId : auto_fired[n][d] <= 1

RequestVote(n, term) == [type |-> "request_vote", candidate_id |-> n, term |-> term]

\* C18 as stated: a node that has observed no leader heartbeat (none was ever
\* published) and starts an election publishes a request_vote for term 1.
C18_FirstElectionInTermOne ==
    \A n \in Node :
        /\ Bodies("leader_heartbeat") = {}
        /\ \E b \in Bodies("request_vote") : b.candidate_id = n
        => RequestVote(n, 1) \in Bodies("request_vote")

\* C18, amended: every election a node starts publishes a request_vote for the
\* term the node held plus one (term 1 for a node that has seen no term), and
\* the node had published no request_vote for that term before.
C18_RequestVoteTermIsFresh ==
    [][\A n \in Node :
          node[n].lock = "free" /\ node'[n].lock = "monitor"
          => LET rv == RequestVote(n, node[n].current_term + 1)
             IN  /\ rv \notin Bodies("request_vote")
                 /\ [from |-> n, body |-> rv] \in msgs'
                 /\ msgs' \ msgs = {[from |-> n, body |-> rv]}
                 /\ node[n].current_term = 0 => rv.term = 1]_vars

\* A node has started two elections, and another node's first election
\* carries term 2: it had adopted term 1 from a candidate's request_vote.
C18_Witness ==
    /\ \E n \in Node :
          /\ RequestVote(n, 1) \in Bodies("request_vote")
          /\ RequestVote(n, 2) \in Bodies("request_vote")
    /\ \E n \in Node :
          /\ RequestVote(n, 2) \in Bodies("request_vote")
          /\ RequestVote(n, 1) \notin Bodies("request_vote")

\* C20: in no state is a node Follower or Candidate with its HTTP server
\* running.
C20_HttpOnlyWhileLeader ==
    \A n \in Node : node[n].http_server => node[n].state = LEADER

Sessions(n) == node[n].voting_sessions

\* C12: every session has required_votes = floor(n/2)+1 for the peer count n it
\* was created with, an upload takes n from the leader's registry at that
\* moment, the number never changes afterwards, and a session becomes
\* approved only with at least required_votes approvers applied.
C12_RequiredVotesFromSnapshot ==
    /\ [](\A n \in Node : \A d \in DOMAIN Sessions(n) :
             Sessions(n)[d].required_votes = (Sessions(n)[d].total_peers \div 2) + 1)
    /\ [][\A n \in Node : \A d \in DOMAIN node'[n].voting_sessions :
             LET after == node'[n].voting_sessions[d]
             IN  IF d \in DOMAIN Sessions(n)
                 THEN /\ after.required_votes = Sessions(n)[d].required_votes
                      /\ after.total_peers = Sessions(n)[d].total_peers
                      /\ Sessions(n)[d].status = "pending_approval"
                         /\ after.status = "approved"
                         => Cardinality(after.votes_approve) >= after.required_votes
                 ELSE after.content # NoContent
                      => after.total_peers = obter_contagem_peers(node[n])]_vars

\* A session of a two-peer registry was approved with both peers' votes.
C12_Witness ==
    \E n \in Node : \E d \in DOMAIN Sessions(n) :
        /\ Sessions(n)[d].status = "approved"
        /\ Sessions(n)[d].required_votes = 2
        /\ Sessions(n)[d].content # NoContent
        /\ {"n1", "n2"} \subseteq Sessions(n)[d].votes_approve

DocumentRejected(d) == [type |-> "document_rejected", doc_id |-> d]

\* C16: a session goes from pending to rejected only with a reject count of at
\* least required_votes and an approve count below it; the step publishes
\* document_rejected, removes the pending file and changes no node's catalog.
\* And a leader applying a reject vote that gives such counts does reject.
C16_RejectedByMajority ==
    /\ [][\A n \in Node : \A d \in DOMAIN Sessions(n) :
             /\ Sessions(n)[d].status = "pending_approval"
             /\ node'[n].voting_sessions[d].status = "rejected"
             => LET after == node'[n].voting_sessions[d]
                IN  /\ Cardinality(after.votes_reject) >= after.required_votes
                    /\ Cardinality(after.votes_approve) < after.required_votes
                    /\ [from |-> n, body |-> DocumentRejected(d)] \in msgs'
                    /\ d \notin node'[n].pending_uploads
                    /\ \A m \in Node : node'[m].vector = node[m].vector]_vars
    /\ [](\A n \in Node : \A d \in DOMAIN Sessions(n) : \A p \in Node \ {n} :
             LET voted == add_vote(node[n], d, p, "reject").voting_sessions[d]
                 r == processar_peer_vote(node[n], d, p, "reject", TRUE)
             IN  /\ is_leader(node[n])
                 /\ Sessions(n)[d].status = "pending_approval"
                 /\ Cardinality(voted.votes_reject) >= voted.required_votes
                 /\ Cardinality(voted.votes_approve) < voted.required_votes
                 => /\ r.s.voting_sessions[d].status = "rejected"
                    /\ DocumentRejected(d) \in r.out
                    /\ d \notin r.s.pending_uploads
                    /\ r.s.vector = node[n].vector)

\* A leader rejected an upload: the pending file is gone and its catalog is
\* still empty.
C16_Witness ==
    \E n \in Node : \E d \in DOMAIN Sessions(n) :
        /\ Sessions(n)[d].status = "rejected"
        /\ Sessions(n)[d].content # NoContent
        /\ DocumentRejected(d) \in Bodies("document_rejected")
        /\ d \notin node[n].pending_uploads
        /\ node[n].vector.version_confirmed = 0

\* C17: GET /search/{id} answers 200 only with the token issued for the id;
\* an unknown id is answered 404 and a known id with another token 403, and
\* neither publishes anything nor changes the node.
C17_TokenGuardsResults ==
    \A n \in Node : \A i \in SearchId : \A j \in SearchId :
        LET s == node[n]
            known == i \in DOMAIN s.search_requests
            r == get_search_result(s, i, Token(j))
        IN  /\ known => s.search_requests[i].token = Token(i)
            /\ r.status = 200 => known /\ j = i
            /\ ~known => r.status = 404 /\ r.out = {} /\ r.s = s
            /\ known /\ j # i => r.status = 403 /\ r.out = {} /\ r.s = s

\* A node holds the result of a search: the poll with its token is answered
\* 200, with the token of another search 403, and an unknown id 404.
C17_Witness ==
    \E n \in Node : \E i \in SearchId : \E j \in SearchId : \E k \in SearchId :
        /\ get_search_result(node[n], i, Token(i)).status = 200
        /\ get_search_result(node[n], i, Token(j)).status = 403
        /\ get_search_result(node[n], k, Token(k)).status = 404

\* The protocol state C19 names: sessions, search requests, round-robin
\* cursor, term, role and catalog.
Protocol(s) ==
    <<s.voting_sessions, s.search_requests, s.last_search_peer_index,
      s.current_term, s.state, s.vector>>

\* C19: an HTTP request answered with an error status (403, 404, 500) leaves
\* the node's sessions, search requests, cursor, term, role and catalog as
\* they were.
C19_HttpErrorsChangeNothing ==
    \A n \in Node :
        /\ \A d \in DocId \ DOMAIN node[n].voting_sessions : \A write_ok \in BOOLEAN :
              LET r == upload_file(node[n], d, write_ok)
              IN  r.status \in {403, 500} => Protocol(r.s) = Protocol(node[n])
        /\ \A i \in SearchId :
              LET r == start_search(node[n], i, Token(i))
              IN  r.status = 403 => Protocol(r.s) = Protocol(node[n])
        /\ \A i \in SearchId : \A j \in SearchId :
              LET r == get_search_result(node[n], i, Token(j))
              IN  r.status \in {403, 404} => Protocol(r.s) = Protocol(node[n])

\* Three peers, n2 and n3 heartbeat once, n1 may time out once and serves the
\* searches of its clients.
InitSearch ==
    InitWith(WithSearches(Environment(Node, AllLinks, Only({"n2", "n3"}, 1),
                                      Only({"n1"}, 1), Only({}, 0), 0, 0, 1),
                          Only({"n1"}, MaxSearches)))

SpecSearch == InitSearch /\ [][NextSearch]_vars

\* The timer of an automatic vote fires.
TimersFire == WF_vars(\E n \in Node : \E d \in DocId : AutoVote(n, d))

\* The subscription consumer handles what the bus delivers.
ListenerRuns == WF_vars(\E n \in Node : \E f \in msgs : Deliver(n, f))

NextSingle ==
    \/ \E n \in Node : Heartbeat(n)
    \/ \E n \in Node : \E f \in msgs : Deliver(n, f)
    \/ \E n \in Node : MonitorLider(n)
    \/ \E n \in Node : EsperarVotos(n)
    \/ \E n \in Node : Upload(n)
    \/ \E n \in Node : \E d \in DocId : AutoVote(n, d)
    \/ \E n \in Node : StartSearch(n)
    \/ \E n \in Node : \E job \in SearchJobs : ProcessarPesquisa(n, job)

\* One peer alone: it heartbeats twice, may time out once, and receives
\* uploads and a search; storage works.
InitSingle ==
    InitWith(WithSearches(Environment({"n1"}, AllLinks, Only({"n1"}, 2),
                                      Only({"n1"}, 1), Only({"n1"}, MaxDocs),
                                      0, 0, 1),
                          Only({"n1"}, 1)))

SpecSingle == InitSingle /\ [][NextSingle]_vars /\ TimersFire

Approved(n, d) ==
    /\ d \in DOMAIN Sessions(n)
    /\ Sessions(n)[d].status = "approved"

InCatalog(n, d) ==
    \E i \in 1..Len(node[n].vector.documents_confirmed) :
        node[n].vector.documents_confirmed[i] = DocEntry(Content(d))

\* C11: in a single-node cluster every upload's session has required_votes = 1;
\* the step that approves it is the leader's own automatic vote, which takes
\* the catalog to version_confirmed + 1 with the document appended; and every
\* uploaded document is eventually approved and in the catalog.
C11_SingleNodeApprovesAlone ==
    /\ [](\A d \in DOMAIN Sessions("n1") : Sessions("n1")[d].required_votes = 1)
    /\ [][\A d \in DOMAIN Sessions("n1") :
             ~Approved("n1", d) /\ node'["n1"].voting_sessions[d].status = "approved"
             => /\ auto_fired'["n1"][d] = auto_fired["n1"][d] + 1
                /\ node'["n1"].vector =
                      [version_confirmed |-> node["n1"].vector.version_confirmed + 1,
                       documents_confirmed |->
                          Append(node["n1"].vector.documents_confirmed,
                                 DocEntry(Content(d)))]]_vars
    /\ \A d \in DocId :
          (d \in DOMAIN Sessions("n1")) ~> (Approved("n1", d) /\ InCatalog("n1", d))

\* The single node has approved and ingested its uploads: two documents, no
\* envelope from anyone else on the bus.
C11_Witness ==
    /\ node["n1"].vector.version_confirmed = 2
    /\ \A f \in msgs : f.from = "n1"
    /\ \E d \in DOMAIN Sessions("n1") : Approved("n1", d) /\ InCatalog("n1", d)

NextPair ==
    \/ \E n \in Node : Heartbeat(n)
    \/ \E n \in Node : \E f \in msgs : Deliver(n, f)
    \/ \E n \in Node : MonitorLider(n)
    \/ \E n \in Node : EsperarVotos(n)
    \/ \E n \in Node : Upload(n)
    \/ \E n \in Node : \E d \in DocId : AutoVote(n, d)

\* Two peers that hear each other: n2 heartbeats once and never times out, n1
\* may time out once and receives one upload; storage works.
InitPair ==
    InitWith(Environment({"n1", "n2"}, AllLinks, Only({"n2"}, 1), Only({"n1"}, 1),
                         Only({"n1"}, 1), 0, 0, 1))

SpecPair == InitPair /\ [][NextPair]_vars /\ TimersFire /\ ListenerRuns

\* C13: with n1 leader, n2 follower and both in n1's registry, a document
\* uploaded to n1 and approved eventually brings n1 and n2 to version_confirmed
\* 1 with hash-equal catalogs.
C13_BothReachVersionOne ==
    \A d \in DocId :
        (Approved("n1", d) /\ InCatalog("n1", d) /\ "n2" \in node["n1"].peers)
        ~> /\ node["n1"].vector.version_confirmed = 1
           /\ node["n2"].vector.version_confirmed = 1
           /\ calcular_hash_vetor(node["n1"].vector.documents_confirmed)
              = calcular_hash_vetor(node["n2"].vector.documents_confirmed)

NextFailover ==
    \/ \E n \in Node : Heartbeat(n)
    \/ \E n \in Node : \E f \in msgs : Deliver(n, f)
    \/ \E n \in Node : MonitorLider(n)
    \/ \E n \in Node : EsperarVotos(n)
    \/ \E n \in Node : Stop(n)

\* Three peers that hear each other: n2 and n3 heartbeat once, every peer may
\* time out once, and n1 may be interrupted.
InitFailover ==
    InitWith(WithStops(Environment(Node, AllLinks, Only({"n2", "n3"}, 1),
                                   Only(Node, 1), Only({}, 0), 0, 0, 1),
                       {"n1"}))

\* monitor_lider keeps polling and the wait for votes ends.
MonitorRuns ==
    \A n \in Node : WF_vars(MonitorLider(n)) /\ WF_vars(EsperarVotos(n))

SpecFailover ==
    InitFailover /\ [][NextFailover]_vars /\ MonitorRuns /\ ListenerRuns

\* n1 led term 1 and has stopped; n2 and n3 follow at term 1, know each other
\* and their election timeouts are still to elapse.
LeaderStopped ==
    /\ ~node["n1"].running
    /\ node["n1"].state = LEADER
    /\ node["n1"].current_term = 1
    /\ \A n \in {"n2", "n3"} :
          /\ node[n].state = FOLLOWER
          /\ node[n].current_term = 1
          /\ {"n2", "n3"} \subseteq node[n].peers
          /\ env.timeouts[n] > 0

\* C14: after the leader n1 of term 1 stops, eventually exactly one of n2 and
\* n3 is Leader at term 2 and the other is Follower at term 2.
C14_FailoverElectsOne ==
    LeaderStopped
    ~> \E l \in {"n2", "n3"} :
          /\ node[l].state = LEADER
          /\ node[l].current_term = 2
          /\ \A n \in {"n2", "n3"} \ {l} :
                node[n].state = FOLLOWER /\ node[n].current_term = 2

\* n1 hears every peer and every peer hears n1.
Star == ({"n1"} \X Node) \cup (Node \X {"n1"})

\* Three peers over Star: n2 and n3 heartbeat once, n1 may time out once and
\* receives one upload; storage works.
InitQuorum ==
    InitWith(Environment(Node, Star, Only({"n2", "n3"}, 1), Only({"n1"}, 1),
                         Only({"n1"}, 1), 0, 0, 1))

SpecQuorum == InitQuorum /\ [][NextPair]_vars

\* The catalogs of the same version that differ from documents in their last
\* entry.
OtherDocuments(documents) ==
    {[documents EXCEPT ![Len(documents)] = DocEntry(Content(d))] : d \in DocId}
    \ {documents}

\* C15: when, for a version the leader n1 requested with hash H, n2 confirms H
\* and n3 confirms another hash, then in both arrival orders the leader
\* broadcasts a vector_commit, every vector_commit carries H, and n3 does not
\* adopt the version.
C15_CommitCarriesQuorumHash ==
    \A r \in {f \in msgs : f.from = "n1" /\ f.body.type = "version_confirmation_request"} :
      \A other \in OtherDocuments(r.body.documents) :
        LET version == r.body.version
            last == other[Len(other)]
            n2_staged == processar_pedido_confirmacao(node["n2"], version,
                             r.body.documents, r.body.cid, r.body.embedding_cid, TRUE)
            n3_staged == processar_pedido_confirmacao(node["n3"], version, other,
                             last.cid, last.embedding_cid, TRUE)
            H == calcular_hash_vetor(r.body.documents)
            H_other == calcular_hash_vetor(other)
            a1 == processar_version_confirmation(node["n1"], version, H, "n2")
            a2 == processar_version_confirmation(a1.s, version, H_other, "n3")
            b1 == processar_version_confirmation(node["n1"], version, H_other, "n3")
            b2 == processar_version_confirmation(b1.s, version, H, "n2")
        IN  /\ is_leader(node["n1"])
            /\ obter_contagem_peers(node["n1"]) = 3
            /\ version \notin DOMAIN node["n1"].version_confirmations
            /\ n2_staged.staged
            /\ n3_staged.staged
            => /\ a1.out \cup a2.out # {}
               /\ b1.out \cup b2.out # {}
               /\ \A c \in a1.out \cup a2.out \cup b1.out \cup b2.out :
                     /\ c.hash = H
                     /\ processar_commit_lider(n3_staged.s, c.version, c.hash)
                        = n3_staged.s

NextCorrupt ==
    \/ \E n \in Node : Heartbeat(n)
    \/ \E n \in Node : \E f \in msgs : Deliver(n, f)
    \/ \E n \in Node : MonitorLider(n)
    \/ \E n \in Node : EsperarVotos(n)
    \/ \E n \in Node : Upload(n)
    \/ \E n \in Node : \E d \in DocId : AutoVote(n, d)
    \/ \E n \in Node : Corrupt(n)

\* One peer alone: it heartbeats once, may time out once, receives two
\* uploads, and its catalog file may be damaged once.
InitCorrupt ==
    InitWith(WithCorruptions(Environment({"n1"}, AllLinks, Only({"n1"}, 1),
                                         Only({"n1"}, 1), Only({"n1"}, MaxDocs),
                                         0, 0, 1),
                             {"n1"}))

SpecCorrupt == InitCorrupt /\ [][NextCorrupt]_vars

\* C21: a node whose catalog file does not parse, once a handler has loaded
\* the catalog, has the file set aside under a backup name (the damaged
\* content is kept, VECTOR_FILE is free of it) and reads an empty catalog.
C21_CorruptCatalogIsSetAside ==
    \A n \in Node : \A m \in Bodies("version_confirmation_request") :
        VECTOR_FILE \in node[n].corrupt_files
        => LET r == processar_pedido_confirmacao(node[n], m.version, m.documents,
                                                 m.cid, m.embedding_cid, TRUE)
           IN  /\ carregar_vetor_documentos(r.s)
                  = [version_confirmed |-> 0, documents_confirmed |-> <<>>]
               /\ VECTOR_FILE \notin r.s.corrupt_files
               /\ r.s.corrupt_files # {}

\* Identifiers no search has used yet at the node, in a fixed order.
IdOrder ==
    <<<<"n1", 1>>, <<"n2", 1>>, <<"n3", 1>>, <<"n1", 2>>, <<"n2", 2>>, <<"n3", 2>>>>

FreshIds(s) == SelectSeq(IdOrder, LAMBDA i : i \notin DOMAIN s.search_requests)

\* The targets of consecutive POST /search calls with the identifiers ids.
RECURSIVE Dispatch(_, _)
Dispatch(s, ids) ==
    IF ids = <<>>
    THEN <<>>
    ELSE LET r == start_search(s, Head(ids), Token(Head(ids)))
         IN  <<r.s.search_requests[Head(ids)].peer_id>> \o Dispatch(r.s, Tail(ids))

\* C22: on a leader with k > 1 registered peers a search init targets
\* sorted(peers)[cursor mod k] and advances the cursor by one, so k
\* consecutive inits target every peer exactly once; with k <= 1 the target is
\* the leader itself; only the targeted peer runs the search of a search_id.
C22_RoundRobinDispatch ==
    \A n \in Node :
        LET s == node[n]
            peers == sorted(s.peers)
            k == Len(peers)
            fresh == FreshIds(s)
            r == start_search(s, fresh[1], Token(fresh[1]))
            target == r.s.search_requests[fresh[1]].peer_id
            round == Dispatch(s, SubSeq(fresh, 1, k))
        IN  /\ is_leader(s) /\ k > 1
               => /\ target = peers[(s.last_search_peer_index % k) + 1]
                  /\ r.s.last_search_peer_index = s.last_search_peer_index + 1
                  /\ Len(round) = k
                  /\ {round[i] : i \in 1..k} = s.peers
                  /\ \A m \in r.out : m.type = "search_request" /\ m.target_peer = target
            /\ is_leader(s) /\ k <= 1 => target = n /\ r.out = {}
            /\ \A m \in Bodies("search_request") \cup (IF is_leader(s) THEN r.out ELSE {}) :
                  \A p \in Node :
                      processar_search_request(node[p], m) # node[p] => p = m.target_peer
            /\ \A job \in s.search_jobs :
                  node[job.leader_id].search_requests[job.search_id].peer_id = n

\* A leader with three registered peers has dispatched two searches and the
\* second one is running at a follower.
C22_Witness ==
    \E n \in Node : \E p \in Node \ {n} :
        /\ is_leader(node[n])
        /\ Len(sorted(node[n].peers)) = 3
        /\ node[n].last_search_peer_index = 2
        /\ node[p].search_jobs # {}

\* C23: a request_vote whose term is at most the receiver's current_term is
\* ignored: current_term, state, voted_for and leader_id stay as they were and
\* no vote_response is published, also when the terms are equal and the
\* receiver has not voted in that term.
C23_StaleRequestVoteIgnored ==
    \A n \in Node : \A m \in Bodies("request_vote") :
        m.term <= node[n].current_term
        => LET r == processar_pedido_voto(node[n], m.candidate_id, m.term)
           IN  /\ r.s.current_term = node[n].current_term
               /\ r.s.state = node[n].state
               /\ r.s.voted_for = node[n].voted_for
               /\ r.s.leader_id = node[n].leader_id
               /\ r.out = {}

\* The vote_response envelopes that grant the candidate a vote for the term.
Grants(candidate, term) ==
    {m \in Bodies("vote_response") :
        m.vote_granted /\ m.candidate_id = candidate /\ m.term = term}

\* C24: a node becomes Leader in its election for term T only with at least
\* floor(|peers|/2)+1 members in votes_received, each the node itself or the
\* voter of a granting vote_response for this candidate and term T; a
\* vote_response with the term of an earlier election adds nobody.
C24_LeaderNeedsMajorityOfValidVotes ==
    [][\A n \in Node :
          /\ node'[n].state = LEADER /\ node[n].state # LEADER
             => /\ Cardinality(node[n].votes_received)
                   >= (Cardinality(node[n].peers) \div 2) + 1
                /\ node'[n].current_term = node[n].current_election_term
                /\ \A v \in node[n].votes_received \ {n} :
                      \E m \in Grants(n, node[n].current_election_term) : m.voter_id = v
          /\ \A m \in Bodies("vote_response") :
                LET after == processar_resposta_voto(node[n], m.voter_id, m.candidate_id,
                                                     m.term, m.vote_granted)
                IN  /\ m.term # node[n].current_election_term
                       => after.votes_received = node[n].votes_received
                    /\ after.votes_received \ node[n].votes_received # {}
                       => m \in Grants(n, node[n].current_election_term)]_vars

\* A candidate waits in its election for term 2 while a granting response to
\* its election for term 1 is on the bus, and another node has become Leader.
C24_Witness ==
    \E n \in Node : \E l \in Node \ {n} :
        /\ node[n].state = CANDIDATE
        /\ node[n].current_election_term = 2
        /\ Grants(n, 1) # {}
        /\ node[l].state = LEADER

\* C25: a granting vote_response for the candidate and the term of its
\* election that reaches the candidate's consumer during the wait is counted
\* before the wait ends: a candidate whose own vote and the responses
\* published to it during the wait make a majority ends the wait as Leader.
C25_VotesCountedDuringWait ==
    [][\A n \in Node :
          LET T == node[n].current_election_term
              voters == {m.voter_id : m \in {g \in Grants(n, T) :
                                               <<g.voter_id, n>> \in env.links}}
          IN  /\ node[n].lock = "monitor"
              /\ node'[n].lock = "free"
              /\ node[n].state = CANDIDATE
              /\ Cardinality(voters \cup {n}) >= votos_necessarios(node[n])
              => node'[n].state = LEADER]_vars

\* C26: a thread that publishes, calls the storage layer, writes the catalog
\* or sleeps does not hold the node-context mutex: no candidate is in the wait
\* for votes (request_vote published, sleeping between polls) with the mutex
\* taken by its thread.
C26_MutexFreeWhileWaiting ==
    \A n \in Node : node[n].state = CANDIDATE => node[n].lock = "free"

\* C27: a leader_heartbeat whose term is below the receiver's current_term
\* changes nothing on the receiver, and last_leader_heartbeat is set only by a
\* heartbeat whose term is at least current_term.
C27_StaleHeartbeatIgnored ==
    \A n \in Node : \A m \in Bodies("leader_heartbeat") :
        LET after == processar_leader_heartbeat(node[n], m.leader_id, m.term)
        IN  /\ m.term < node[n].current_term => after = node[n]
            /\ after.last_leader_heartbeat # node[n].last_leader_heartbeat
               => m.term >= node[n].current_term

\* A follower that has seen no leader yet holds term 2 while heartbeats of a
\* leader of term 1 and of a leader of term 2 are on the bus.
C27_Witness ==
    \E n \in Node : \E m \in Bodies("leader_heartbeat") : \E k \in Bodies("leader_heartbeat") :
        /\ node[n].state = FOLLOWER
        /\ node[n].last_leader_heartbeat = None
        /\ m.term < node[n].current_term
        /\ k.term >= node[n].current_term
        /\ processar_leader_heartbeat(node[n], k.leader_id, k.term) # node[n]

\* C28: a Leader that handles a leader_heartbeat of another leader with a term
\* at least its own current_term returns to Follower and records that leader.
C28_LeaderYieldsToHeartbeat ==
    \A n \in Node : \A m \in Bodies("leader_heartbeat") :
        /\ is_leader(node[n])
        /\ m.leader_id # n
        /\ m.term >= node[n].current_term
        => LET after == processar_leader_heartbeat(node[n], m.leader_id, m.term)
           IN  after.state = FOLLOWER /\ after.leader_id = m.leader_id

\* C29: a node handling version_confirmation_request(version) with version at
\* most its version_confirmed stages nothing and publishes no confirmation,
\* and no node publishes a version_confirmation for a version it has already
\* adopted.
C29_NoConfirmationOfConfirmedVersion ==
    \A n \in Node : \A m \in Bodies("version_confirmation_request") :
        LET r == processar_mensagem_pubsub(node[n], m, TRUE)
        IN  /\ m.version <= carregar_vetor_documentos(node[n]).version_confirmed
               => r.s = node[n] /\ r.out = {}
            /\ (\E a \in adopted[n] : a[1] = m.version) => r.out = {}

\* C30: only a Leader moves a voting session out of pending_approval; on a
\* node that is not Leader a peer_vote changes the two vote sets of its
\* session and nothing else (status, catalog), and publishes nothing.
C30_OnlyLeaderFinalizes ==
    [][\A n \in Node : \A d \in DOMAIN Sessions(n) :
          /\ /\ Sessions(n)[d].status = "pending_approval"
             /\ node'[n].voting_sessions[d].status # "pending_approval"
             => is_leader(node[n])
          /\ ~is_leader(node[n])
             => \A p \in Node : \A vote \in {"approve", "reject"} : \A ipfs_ok \in BOOLEAN :
                   LET r == processar_peer_vote(node[n], d, p, vote, ipfs_ok)
                       session == Sessions(n)[d]
                   IN  /\ r.out = {}
                       /\ ~r.raised
                       /\ [r.s EXCEPT !.voting_sessions[d].votes_approve =
                                          session.votes_approve,
                                      !.voting_sessions[d].votes_reject =
                                          session.votes_reject] = node[n]]_vars

\* A node that is not Leader holds a pending session in which one more
\* approve vote of another peer reaches required_votes.
C30_Witness ==
    \E n \in Node : \E d \in DOMAIN Sessions(n) : \E p \in Node \ {n} :
        /\ ~is_leader(node[n])
        /\ node[n].running
        /\ Sessions(n)[d].status = "pending_approval"
        /\ Cardinality(add_vote(node[n], d, p, "approve").voting_sessions[d].votes_approve)
           >= Sessions(n)[d].required_votes
        /\ add_vote(node[n], d, p, "approve") # node[n]

\* C31: a node that has processed document_rejected for a doc_id, or a
\* vector_commit that brought the approved document into its catalog, no
\* longer holds a voting session for that doc_id.
C31_DecidedSessionDestroyed ==
    \A n \in Node :
        /\ \A m \in Bodies("document_rejected") :
              m.doc_id \notin DOMAIN processar_mensagem_pubsub(node[n], m, TRUE).s.voting_sessions
        /\ \A m \in Bodies("vector_commit") :
              LET after == processar_mensagem_pubsub(node[n], m, TRUE).s
                  docs == carregar_vetor_documentos(after).documents_confirmed
              IN  after # node[n]
                  => \A d \in DOMAIN after.voting_sessions :
                        \A i \in 1..Len(docs) : docs[i] # DocEntry(Content(d))

\* C32: a node that handles a leader_heartbeat, a request_vote or a peer_vote
\* of another peer has that peer in its registry afterwards.
C32_EnvelopeMarksSender ==
    \A n \in Node :
        /\ \A m \in Bodies("leader_heartbeat") :
              m.leader_id # n
              => m.leader_id \in processar_mensagem_pubsub(node[n], m, TRUE).s.peers
        /\ \A m \in Bodies("request_vote") :
              m.candidate_id # n
              => m.candidate_id \in processar_mensagem_pubsub(node[n], m, TRUE).s.peers
        /\ \A m \in Bodies("peer_vote") :
              m.peer_id # n
              => m.peer_id \in processar_mensagem_pubsub(node[n], m, TRUE).s.peers

\* C33: after an election that ended without a majority, the next monitor
\* tick starts no election while no further leader-timeout has expired.
C33_NoElectionAtNextTick ==
    [][\A n \in Node :
          /\ node[n].lock = "monitor"
          /\ node'[n].lock = "free"
          /\ node'[n].state = FOLLOWER
          => monitor_lider(node'[n], TRUE, FALSE).out = {}]_vars

\* The catalog version of node n has been committed and n has nothing staged.
NoCommitInProgress(n) ==
    LET vector == carregar_vetor_documentos(node[n])
    IN  /\ vector.version_confirmed > 0
        /\ node[n].temp_vectors = <<>>
        /\ \E m \in Bodies("vector_commit") : m.version = vector.version_confirmed

\* C34: on every node whose catalog version is committed and that has nothing
\* staged, the similarity index lists exactly the documents of
\* documents_confirmed.
C34_IndexEqualsCatalog ==
    \A n \in Node :
        NoCommitInProgress(n)
        => LET docs == carregar_vetor_documentos(node[n]).documents_confirmed
           IN  node[n].faiss_index = [i \in 1..Len(docs) |-> docs[i].cid]

\* One peer alone as in InitSingle, and the storage layer fails once.
InitFault ==
    InitWith(WithSearches(Environment({"n1"}, AllLinks, Only({"n1"}, 2),
                                      Only({"n1"}, 1), Only({"n1"}, MaxDocs),
                                      0, 1, 1),
                          Only({"n1"}, 1)))

SpecFault == InitFault /\ [][NextSingle]_vars /\ TimersFire /\ ListenerRuns

\* C35: a document whose session the leader has marked approved is eventually
\* ingested: a version_confirmation_request carrying its cid is published,
\* also when the storage add failed at the first attempt.
C35_FailedIngestionIsRedriven ==
    \A n \in Node : \A d \in DocId :
        Approved(n, d)
        ~> \E m \in Bodies("version_confirmation_request") :
              m.cid = DocEntry(Content(d)).cid

\* C36: in every step, on every node, current_term does not decrease; a step
\* that changes it is either the start of an election, which adds exactly one,
\* or the handling of a request_vote or leader_heartbeat whose term is the new
\* value.
C36_TermNeverDecreases ==
    [][\A n \in Node :
          LET old == node[n].current_term
              new == node'[n].current_term
          IN  /\ new >= old
              /\ new # old
                 => \/ /\ node[n].state = FOLLOWER
                       /\ node'[n].state = CANDIDATE
                       /\ new = old + 1
                    \/ \E m \in Bodies("request_vote") \cup Bodies("leader_heartbeat") :
                          m.term = new /\ m.term > old]_vars

\* A node whose term was raised to MaxTerm by a message, not by an election
\* of its own.
C36_Witness ==
    \E n \in Node :
        /\ node[n].current_term = MaxTerm
        /\ node[n].current_election_term < MaxTerm

\* C37: on every node the catalog, as stored and as loaded, has exactly
\* version_confirmed entries in documents_confirmed.
C37_OneDocumentPerVersion ==
    \A n \in Node :
        /\ Len(node[n].vector.documents_confirmed) = node[n].vector.version_confirmed
        /\ LET vector == carregar_vetor_documentos(node[n])
           IN  Len(vector.documents_confirmed) = vector.version_confirmed

\* The leader ingested two documents and a follower adopted the second version.
C37_Witness ==
    \E n, p \in Node :
        /\ is_leader(node[n])
        /\ node[n].vector.version_confirmed = 2
        /\ ~is_leader(node[p])
        /\ node[p].vector.version_confirmed = 2

\* C38: in every step, on every node, the catalog before the step is a prefix
\* of the catalog after it: no committed entry is removed or replaced.
C38_CatalogOnlyGrows ==
    [][\A n \in Node :
          LET old == node[n].vector.documents_confirmed
              new == node'[n].vector.documents_confirmed
          IN  /\ Len(old) <= Len(new)
              /\ \A i \in 1..Len(old) : new[i] = old[i]]_vars

\* C39: a node whose catalog is at version V > 0 holds it only once the
\* vector_commit for V has been published, that is, once a quorum confirmed V.
C39_NoVersionBeforeQuorum ==
    \A n \in Node :
        node[n].vector.version_confirmed > 0
        => \E m \in Bodies("vector_commit") :
              m.version = node[n].vector.version_confirmed

Decided(session) == session.status \in {"approved", "rejected"}

Acts(out) ==
    {m \in out : m.type \in {"version_confirmation_request", "document_approved",
                             "document_rejected"}}

\* C40: (1) no catalog lists a document twice; (2) a session that is approved
\* or rejected keeps that status in every later step; (3) on a decided session
\* a vote arriving through the consumer or through the automatic-vote timer
\* changes neither status nor catalog and publishes no ingestion or decision
\* message; (4) when the timer thread and the consumer each record a vote and
\* then check the result one after the other, in either order, the second
\* check after a deciding first one changes nothing and publishes nothing.
C40_DecisionFinalActedOnce ==
    /\ [](\A n \in Node :
            /\ \A d \in DocId :
                 LET docs == node[n].vector.documents_confirmed
                 IN  Cardinality({i \in 1..Len(docs) :
                                     docs[i] = DocEntry(Content(d))}) <= 1
            /\ \A d \in DOMAIN Sessions(n) :
                 LET session == Sessions(n)[d]
                 IN  IF Decided(session)
                     THEN \A vote \in {"approve", "reject"} : \A ipfs_ok \in BOOLEAN :
                            /\ \A p \in Node :
                                  LET r == processar_peer_vote(node[n], d, p, vote, ipfs_ok)
                                  IN  /\ r.s.voting_sessions[d].status = session.status
                                      /\ r.s.vector = node[n].vector
                                      /\ Acts(r.out) = {}
                            /\ LET r == votar_automaticamente(node[n], d, vote, ipfs_ok)
                               IN  /\ r.s.voting_sessions[d].status = session.status
                                   /\ r.s.vector = node[n].vector
                                   /\ Acts(r.out) = {}
                     ELSE \A p \in Node \ {n} : \A v1 \in {"approve", "reject"} :
                          \A v2 \in {"approve", "reject"} :
                          \A ok1 \in BOOLEAN : \A ok2 \in BOOLEAN :
                            LET consumer == add_vote(node[n], d, p, v1)
                                timer == add_vote(consumer, d, n, v2)
                                other == add_vote(add_vote(node[n], d, n, v2), d, p, v1)
                            IN  \A both \in {timer, other} :
                                  LET r1 == verificar_resultado_votacao(both, d, ok1)
                                      r2 == verificar_resultado_votacao(r1.s, d, ok2)
                                  IN  Decided(r1.s.voting_sessions[d])
                                      => r2.s = r1.s /\ r2.out = {})
    /\ [][\A n \in Node : \A d \in DOMAIN Sessions(n) :
            Decided(Sessions(n)[d]) /\ d \in DOMAIN node'[n].voting_sessions
            => node'[n].voting_sessions[d].status = Sessions(n)[d].status]_vars

\* A leader holds a decided session and a peer_vote for it, of a peer whose
\* vote it has not recorded, is still on the bus.
C40_Witness ==
    \E n \in Node : \E d \in DOMAIN Sessions(n) :
        /\ is_leader(node[n])
        /\ Decided(Sessions(n)[d])
        /\ \E m \in Bodies("peer_vote") :
              /\ m.doc_id = d
              /\ m.peer_id # n
              /\ m.peer_id \notin Sessions(n)[d].votes_approve \cup Sessions(n)[d].votes_reject

====
